---- MODULE Spec2Model ----
(***************************************************************************)
(* Model of pcdsdevices/pseudopos.py: the PCDS pseudo positioners.         *)
(*                                                                         *)
(*   PseudoPositioner       move / _update_position with the best-effort   *)
(*                          push to the notepad (telemetry) signals        *)
(*   SyncAxesBase           N real axes moved together, offsets retained   *)
(*   DelayBase              time axis <-> length axis of a delay stage     *)
(*   LookupTablePositioner  one pseudo axis <-> one real axis by table     *)
(*                                                                         *)
(* Each component has its own specification (SpecSync, SpecNotepad,        *)
(* SpecDelay, SpecTable).  Positions are exact numbers: integers for the   *)
(* synchronized axes, normalised rationals where the code divides.         *)
(***************************************************************************)
EXTENDS Integers, Sequences, FiniteSets, TLC

VARIABLES
    \* ---- SyncAxesBase ----
    combiner,    \* which calc_combined the (sub)class defines
    realPos,     \* self.real_position: real axis name -> position
    offsets,     \* self._offsets: dict, real axis name -> offset
    baseline,    \* history: the real position read by the last save_offsets
    call,        \* history: the last call made on the device and its result
    \* ---- PseudoPositioner (notepad push) ----
    npSignals,   \* pseudo axis -> the condition of its notepad signals
    npCall,      \* history: the last move / _update_position call, what it
                 \* did in order, and how it ended
    \* ---- DelayBase ----
    delay,       \* the delay stage: delay.egu, motor.egu, n_bounces
    dCall,       \* history: the last forward / inverse call and its result
    \* ---- construction ----
    obj,         \* the outcome of the constructor call made, with its arguments
    \* ---- LookupTablePositioner ----
    lut,         \* self._table_data_by_name: column name -> column
    tCall        \* history: the last forward / inverse call and its result

syncVars == <<combiner, realPos, offsets, baseline, call>>

npVars == <<npSignals, npCall>>

delayVars == <<delay, dCall>>

tableVars == <<lut, tCall>>

vars == <<syncVars, npVars, delayVars, obj, tableVars>>

\* what the actions of one component leave alone
notSync == <<npVars, delayVars, obj, tableVars>>

notNp == <<syncVars, delayVars, obj, tableVars>>

notDelay == <<syncVars, npVars, obj, tableVars>>

notObj == <<syncVars, npVars, delayVars, tableVars>>

notTable == <<syncVars, npVars, delayVars, obj>>

----------------------------------------------------------------------------
(* Bounds of the model *)

\* real axis positions range over 0..MaxPos
MaxPos == 2

\* pseudo positions and notepad signal values range over 0..MaxVal
MaxVal == 1

\* delays and motor positions are 1..MaxDelay times a power of ten
MaxDelay == 3

\* the bounce count of a delay stage ranges over 1..MaxBounces
MaxBounces == 3

\* a lookup table has up to MaxRows rows of cells in 0..MaxCell
MaxRows == 2

MaxCell == 2

----------------------------------------------------------------------------
(* Generic helpers *)

Abs(i) == IF i < 0 THEN 0 - i ELSE i

Min2(a, b) == IF a <= b THEN a ELSE b

Max2(a, b) == IF a >= b THEN a ELSE b

\* the empty dict {}
EmptyDict == [a \in {} |-> 0]

----------------------------------------------------------------------------
(* Exact arithmetic for the float computations.  A rational is <<n, d>> in *)
(* lowest terms with d > 0.  A scaled number [m, e] is m * 10^e with m a   *)
(* rational that has no factor 5 in n or d, so that equal numbers have     *)
(* equal representations and SI prefixes only move e.                      *)

RECURSIVE GCD(_, _)
GCD(a, b) == IF b = 0 THEN a ELSE GCD(b, a % b)

Rat(n, d) ==
    LET g == GCD(Abs(n), Abs(d))
        sg == IF d < 0 THEN 0 - 1 ELSE 1
    IN  <<sg * (n \div g), sg * (d \div g)>>

RInt(i) == <<i, 1>>

\* a * b, cancelling before multiplying
RMul(a, b) ==
    LET g1 == GCD(Abs(a[1]), b[2])
        g2 == GCD(Abs(b[1]), a[2])
    IN  Rat((a[1] \div g1) * (b[1] \div g2), (a[2] \div g2) * (b[2] \div g1))

\* a / b for b # 0
RDiv(a, b) == RMul(a, Rat(b[2], b[1]))

RAdd(a, b) == Rat(a[1] * b[2] + b[1] * a[2], a[2] * b[2])

RSub(a, b) == Rat(a[1] * b[2] - b[1] * a[2], a[2] * b[2])

RLess(a, b) == a[1] * b[2] < b[1] * a[2]

RLeq(a, b) == a[1] * b[2] <= b[1] * a[2]

RECURSIVE Scaled(_, _)
Scaled(m, e) ==
    IF m[1] = 0 THEN [m |-> <<0, 1>>, e |-> 0]
    ELSE IF m[1] % 5 = 0 THEN Scaled(Rat(m[1] \div 5, 2 * m[2]), e + 1)
    ELSE IF m[2] % 5 = 0 THEN Scaled(Rat(2 * m[1], m[2] \div 5), e - 1)
    ELSE [m |-> m, e |-> e]

\* x * i and x / i for an integer i # 0
SMulInt(x, i) == Scaled(RMul(x.m, RInt(i)), x.e)

SDivInt(x, i) == Scaled(RDiv(x.m, RInt(i)), x.e)

----------------------------------------------------------------------------
(* SyncAxesBase *)

\* The fields of RealPosition, in component order, of a subclass such as the
\* docstring's Parallel(left, right) with one more axis.
RealFields == <<"left", "right", "top">>

RealAxes == {RealFields[i] : i \in 1..Len(RealFields)}

RealVals == 0..MaxPos

PseudoVals == (0 - 1)..MaxPos

RealPositions == [RealAxes -> RealVals]

RECURSIVE FoldMin(_, _)
FoldMin(pos, i) ==
    IF i = 1 THEN pos[RealFields[1]]
    ELSE Min2(pos[RealFields[i]], FoldMin(pos, i - 1))

RECURSIVE FoldMax(_, _)
FoldMax(pos, i) ==
    IF i = 1 THEN pos[RealFields[1]]
    ELSE Max2(pos[RealFields[i]], FoldMax(pos, i - 1))

RECURSIVE FoldSum(_, _)
FoldSum(pos, i) ==
    IF i = 0 THEN 0 ELSE pos[RealFields[i]] + FoldSum(pos, i - 1)

\* calc_combined implementations: the base class's ("first": real_position[0]),
\* the overrides the class docstring names (min, max) and a custom one (sum).
Combiners == {"first", "min", "max", "sum"}

\* SyncAxesBase.calc_combined: return real_position[0]
CalcCombinedBase(real_position) == real_position[RealFields[1]]

\* self.calc_combined(real_position), dispatched on the class
CalcCombined(comb, real_position) ==
    CASE comb = "first" -> CalcCombinedBase(real_position)
      [] comb = "min"   -> FoldMin(real_position, Len(RealFields))
      [] comb = "max"   -> FoldMax(real_position, Len(RealFields))
      [] comb = "sum"   -> FoldSum(real_position, Len(RealFields))

\* a slip: the offsets computed with the sign reversed
OffsetsOfReversed(comb, pos) ==
    [fld \in DOMAIN pos |-> CalcCombined(comb, pos) - pos[fld]]

\* save_offsets: {fld: getattr(pos, fld) - combo for fld in pos._fields}
OffsetsOf(comb, pos) ==
    [fld \in DOMAIN pos |-> pos[fld] - CalcCombined(comb, pos)]

\* a slip: the baseline is taken again on every forward
NeedsSaveAlways(offs) == TRUE

\* forward: `if not self._offsets`
NeedsSave(offs) == DOMAIN offs = {}

\* forward: real_pos[axis] = pseudo_pos.pseudo + offset, for every cached axis
ForwardReal(offs, pseudo) == [axis \in DOMAIN offs |-> pseudo + offs[axis]]

\* a slip: the readback taken as the largest axis whatever the class combines
InversePseudoMax(comb, real_pos) == FoldMax(real_pos, Len(RealFields))

\* inverse: PseudoPosition(pseudo=self.calc_combined(real_pos))
InversePseudo(comb, real_pos) == CalcCombined(comb, real_pos)

\* SyncAxesBase.__init__ of a subclass: self._offsets = {}
NoCall == [op |-> "none", pin |-> 0, pout |-> 0, real |-> EmptyDict,
           lazy |-> FALSE, rt |-> FALSE]

SyncInit ==
    /\ combiner \in Combiners
    /\ realPos \in RealPositions
    /\ offsets = EmptyDict
    /\ baseline = EmptyDict
    /\ call = NoCall

\* The real axes report a new position (motion of the real motors).
RealMotion ==
    /\ \E p \in RealPositions : p # realPos /\ realPos' = p
    /\ call' = [NoCall EXCEPT !.op = "motion"]
    /\ UNCHANGED <<combiner, offsets, baseline, notSync>>

\* save_offsets()
SaveOffsets ==
    /\ offsets' = OffsetsOf(combiner, realPos)
    /\ baseline' = realPos
    /\ call' = [NoCall EXCEPT !.op = "save"]
    /\ UNCHANGED <<combiner, realPos, notSync>>

\* forward(pseudo_pos)
Forward ==
    \E x \in PseudoVals :
        LET lazy == NeedsSave(offsets)
            offs == IF lazy THEN OffsetsOf(combiner, realPos) ELSE offsets
        IN  /\ offsets' = offs
            /\ baseline' = IF lazy THEN realPos ELSE baseline
            /\ call' = [op |-> "forward", pin |-> x, pout |-> 0,
                        real |-> ForwardReal(offs, x), lazy |-> lazy,
                        rt |-> FALSE]
            /\ UNCHANGED <<combiner, realPos, notSync>>

\* inverse(real_pos) of the current real position, as _update_position does
InverseOfReal ==
    /\ call' = [op |-> "inverse", pin |-> 0,
                pout |-> InversePseudo(combiner, realPos),
                real |-> realPos, lazy |-> FALSE, rt |-> FALSE]
    /\ UNCHANGED <<combiner, realPos, offsets, baseline, notSync>>

\* inverse(forward(x)): inverse applied to the result of the forward call
\* just made
InverseOfForward ==
    /\ call.op = "forward"
    /\ DOMAIN call.real = RealAxes
    /\ call' = [op |-> "inverse", pin |-> call.pin,
                pout |-> InversePseudo(combiner, call.real),
                real |-> call.real, lazy |-> call.lazy, rt |-> TRUE]
    /\ UNCHANGED <<combiner, realPos, offsets, baseline, notSync>>

SyncNext ==
    \/ RealMotion
    \/ SaveOffsets
    \/ Forward
    \/ InverseOfReal
    \/ InverseOfForward

----------------------------------------------------------------------------
(* PseudoPositioner: move, _update_position and the notepad push *)

\* self._pseudo, in order: the pseudo axes of some subclass
PseudoFields == <<"x", "y">>

PseudoAxes == {PseudoFields[i] : i \in 1..Len(PseudoFields)}

Values == 0..MaxVal

PseudoPositions == [PseudoAxes -> Values]

\* what reading a boolean property of a signal can do
Tri == {"true", "false", "raise"}

\* The condition of a pseudo axis's notepad signals (notepad_setpoint and
\* notepad_readback are signals of the same notepad IOC record pair, and a
\* call reads only one of them): whether the axis class has the attributes
\* at all, what connected and write_access answer, whether get raises and
\* else the value it returns, whether put raises.
Signal(att, conn, wa, graise, val, praise) ==
    [attached |-> att, connected |-> conn, write_access |-> wa,
     getRaises |-> graise, value |-> val, putRaises |-> praise]

SigStates ==
    {Signal(FALSE, "true", "true", FALSE, 0, FALSE)}
    \cup {Signal(TRUE, c, "true", FALSE, v, FALSE) : c \in {"false", "raise"}, v \in Values}
    \cup {Signal(TRUE, "true", w, FALSE, v, FALSE) : w \in {"false", "raise"}, v \in Values}
    \cup {Signal(TRUE, "true", "true", TRUE, 0, FALSE)}
    \cup {Signal(TRUE, "true", "true", FALSE, v, pr) : v \in Values, pr \in BOOLEAN}

\* one thing a call did, in order
Event(ev, attr, axis, value) ==
    [ev |-> ev, attr |-> attr, axis |-> axis, value |-> value]

\* a slip: the comparison with the last value is left out
PushAxisAlways(signal, value) ==
    IF ~signal.attached THEN [put |-> FALSE, exc |-> "none"]
    ELSE IF signal.connected = "raise" THEN [put |-> FALSE, exc |-> "connected"]
    ELSE IF signal.connected = "false" THEN [put |-> FALSE, exc |-> "none"]
    ELSE IF signal.write_access = "raise" THEN [put |-> FALSE, exc |-> "write_access"]
    ELSE IF signal.write_access = "false" THEN [put |-> FALSE, exc |-> "none"]
    ELSE [put |-> TRUE, exc |-> IF signal.putRaises THEN "put" ELSE "none"]

\* The body of the try block of _update_notepad_ioc for one pseudo axis:
\* whether put was called, and the call that raised, if one did.
PushAxis(signal, value) ==
    IF ~signal.attached THEN [put |-> FALSE, exc |-> "none"]
    ELSE IF signal.connected = "raise" THEN [put |-> FALSE, exc |-> "connected"]
    ELSE IF signal.connected = "false" THEN [put |-> FALSE, exc |-> "none"]
    ELSE IF signal.write_access = "raise" THEN [put |-> FALSE, exc |-> "write_access"]
    ELSE IF signal.write_access = "false" THEN [put |-> FALSE, exc |-> "none"]
    ELSE IF signal.getRaises THEN [put |-> FALSE, exc |-> "get"]
    ELSE IF signal.value = value THEN [put |-> FALSE, exc |-> "none"]
    ELSE [put |-> TRUE, exc |-> IF signal.putRaises THEN "put" ELSE "none"]

\* a slip: the try block only around the put
CaughtPutOnly(exc) == exc = "put"

\* `except Exception`: every failure raised in the body is caught
Caught(exc) == exc # "none"

\* _update_notepad_ioc(position, attr): the loop over zip(self._pseudo,
\* position) from axis i on.  Gives the events (puts and debug logs) in order
\* and the exception that left the loop, if one did.
RECURSIVE UpdateNotepadFrom(_, _, _, _)
UpdateNotepadFrom(i, position, attr, signals) ==
    IF i > Len(PseudoFields) THEN [events |-> <<>>, escaped |-> "none"]
    ELSE
        LET axis == PseudoFields[i]
            value == position[axis]
            r == PushAxis(signals[axis], value)
            puts == IF r.put THEN <<Event("put", attr, axis, value)>> ELSE <<>>
        IN  IF r.exc = "none" THEN
                LET rest == UpdateNotepadFrom(i + 1, position, attr, signals)
                IN  [events |-> puts \o rest.events, escaped |-> rest.escaped]
            ELSE IF Caught(r.exc) THEN
                LET rest == UpdateNotepadFrom(i + 1, position, attr, signals)
                IN  [events |-> puts \o <<Event("log", attr, axis, value)>> \o rest.events,
                     escaped |-> rest.escaped]
            ELSE [events |-> puts, escaped |-> r.exc]

UpdateNotepadIoc(position, attr, signals) ==
    UpdateNotepadFrom(1, position, attr, signals)

\* what super().move(position, wait=wait, ...) of ophyd can do: return a
\* status (done, or still moving when not waiting) or raise
SuperMoveOutcomes(wait) ==
    IF wait THEN {"done", "ValueError", "TimeoutError", "RuntimeError"}
    ELSE {"done", "moving", "ValueError", "RuntimeError"}

IsStatus(outcome) == outcome \in {"done", "moving"}

NoSignals == [a \in PseudoAxes |-> Signal(FALSE, "true", "true", FALSE, 0, FALSE)]

NoNpCall ==
    [op |-> "none", position |-> [a \in PseudoAxes |-> 0], wait |-> FALSE,
     super |-> "none", events |-> <<>>, raised |-> "none", returned |-> "none"]

NpInit ==
    /\ npSignals \in [PseudoAxes -> SigStates]
    /\ npCall = NoNpCall

\* The notepad IOC and its link change condition: a signal connects or
\* disconnects, becomes read-only, starts to fail, or its monitored value
\* changes (for one, when an earlier put is processed).
SignalChange ==
    /\ \E axis \in PseudoAxes, sig \in SigStates :
           /\ sig # npSignals[axis]
           /\ npSignals' = [npSignals EXCEPT ![axis] = sig]
    /\ npCall' = NoNpCall
    /\ UNCHANGED notNp

\* a slip: the push to notepad_setpoint made before super().move is called
MovePushFirst ==
    /\ \E position \in PseudoPositions, wait \in BOOLEAN :
         \E outcome \in SuperMoveOutcomes(wait) :
           LET started == <<Event("super.move", "", "", 0)>>
               push == UpdateNotepadIoc(position, "notepad_setpoint", npSignals)
           IN  npCall' =
                   [op |-> "move", position |-> position, wait |-> wait,
                    super |-> outcome, events |-> push.events \o started,
                    raised |-> IF IsStatus(outcome) THEN "none" ELSE outcome,
                    returned |-> IF IsStatus(outcome) THEN outcome ELSE "none"]
    /\ UNCHANGED <<npSignals, notNp>>

\* move(position, wait): super().move, then the push to notepad_setpoint
Move ==
    /\ \E position \in PseudoPositions, wait \in BOOLEAN :
         \E outcome \in SuperMoveOutcomes(wait) :
           LET started == <<Event("super.move", "", "", 0)>>
               push == UpdateNotepadIoc(position, "notepad_setpoint", npSignals)
           IN  npCall' =
                   IF ~IsStatus(outcome) THEN
                       [op |-> "move", position |-> position, wait |-> wait,
                        super |-> outcome, events |-> started,
                        raised |-> outcome, returned |-> "none"]
                   ELSE
                       [op |-> "move", position |-> position, wait |-> wait,
                        super |-> outcome, events |-> started \o push.events,
                        raised |-> push.escaped,
                        returned |-> IF push.escaped = "none" THEN outcome
                                     ELSE "none"]
    /\ UNCHANGED <<npSignals, notNp>>

\* _update_position(): super()._update_position() recomputes the pseudo
\* position from the real axes (through inverse), then the push to
\* notepad_readback
UpdatePosition ==
    /\ \E position \in PseudoPositions :
           LET started == <<Event("super._update_position", "", "", 0)>>
               push == UpdateNotepadIoc(position, "notepad_readback", npSignals)
           IN  npCall' =
                   [op |-> "update", position |-> position, wait |-> FALSE,
                    super |-> "position", events |-> started \o push.events,
                    raised |-> push.escaped,
                    returned |-> IF push.escaped = "none" THEN "position"
                                 ELSE "none"]
    /\ UNCHANGED <<npSignals, notNp>>

NpNext ==
    \/ SignalChange
    \/ Move
    \/ UpdatePosition

----------------------------------------------------------------------------
(* DelayBase *)

\* scipy.constants.speed_of_light, in m/s
SpeedOfLight == 299792458

\* units and their power of ten against the SI base unit
TimeUnits == {"s", "ns", "ps", "fs"}

LengthUnits == {"m", "mm", "um"}

UnitDim(unit) ==
    IF unit \in TimeUnits \cup {"seconds"} THEN "time" ELSE "length"

UnitExp(unit) ==
    CASE unit \in {"s", "seconds", "m", "meters"} -> 0
      [] unit = "mm" -> 0 - 3
      [] unit = "um" -> 0 - 6
      [] unit = "ns" -> 0 - 9
      [] unit = "ps" -> 0 - 12
      [] unit = "fs" -> 0 - 15

\* utils.convert_unit(value, unit, new_unit): the value in new_unit; a
\* conversion between a time and a length is an error
ConvertUnit(value, unit, new_unit) ==
    IF UnitDim(unit) # UnitDim(new_unit) THEN [ok |-> FALSE, value |-> value]
    ELSE [ok |-> TRUE,
          value |-> Scaled(value.m, value.e + UnitExp(unit) - UnitExp(new_unit))]

\* DelayBase.forward: the motor position for a delay
DelayForward(dev, delay_value) ==
    LET seconds == ConvertUnit(delay_value, dev.egu, "seconds")
        meters == SDivInt(SMulInt(seconds.value, SpeedOfLight), dev.n_bounces)
        motor_value == ConvertUnit(meters, "meters", dev.motor_egu)
    IN  IF seconds.ok /\ motor_value.ok
        THEN [ok |-> TRUE, value |-> motor_value.value]
        ELSE [ok |-> FALSE, value |-> delay_value]

\* a slip: divided by the bounce count, as forward does
DelayInverseDivides(dev, motor_value) ==
    LET meters == ConvertUnit(motor_value, dev.motor_egu, "meters")
        seconds == SDivInt(SDivInt(meters.value, SpeedOfLight), dev.n_bounces)
        delay_value == ConvertUnit(seconds, "seconds", dev.egu)
    IN  IF meters.ok /\ delay_value.ok
        THEN [ok |-> TRUE, value |-> delay_value.value]
        ELSE [ok |-> FALSE, value |-> motor_value]

\* DelayBase.inverse: the delay for a motor position
DelayInverse(dev, motor_value) ==
    LET meters == ConvertUnit(motor_value, dev.motor_egu, "meters")
        seconds == SMulInt(SDivInt(meters.value, SpeedOfLight), dev.n_bounces)
        delay_value == ConvertUnit(seconds, "seconds", dev.egu)
    IN  IF meters.ok /\ delay_value.ok
        THEN [ok |-> TRUE, value |-> delay_value.value]
        ELSE [ok |-> FALSE, value |-> motor_value]

\* the values given to forward and inverse: k, and k * 1e-9
DelayInputs ==
    {Scaled(RInt(k), e) : k \in 1..MaxDelay, e \in {0, 0 - 9}}

\* egu of the delay axis: a time unit, or by mistake a length
DelayEgus == TimeUnits \cup {"mm"}

NoDelayCall ==
    [op |-> "none", din |-> Scaled(RInt(0), 0), motor |-> Scaled(RInt(0), 0),
     dout |-> Scaled(RInt(0), 0), ok |-> TRUE, rt |-> FALSE]

\* a DelayBase subclass built with egu and n_bounces; its motor has an egu
\* of its own (SimDelayStage: FastMotor with egu='mm')
DelayInit ==
    /\ \E egu \in DelayEgus, n \in 1..MaxBounces, megu \in LengthUnits :
           delay = [egu |-> egu, n_bounces |-> n, motor_egu |-> megu]
    /\ dCall = NoDelayCall

\* delay.egu or motor.egu is set to another unit
UnitChange ==
    /\ \/ \E egu \in DelayEgus :
              egu # delay.egu /\ delay' = [delay EXCEPT !.egu = egu]
       \/ \E megu \in LengthUnits :
              megu # delay.motor_egu /\ delay' = [delay EXCEPT !.motor_egu = megu]
    /\ dCall' = NoDelayCall
    /\ UNCHANGED notDelay

\* forward(pseudo_pos)
DelayForwardCall ==
    /\ \E d \in DelayInputs :
           LET r == DelayForward(delay, d)
           IN  dCall' = [op |-> "forward", din |-> d, motor |-> r.value,
                         dout |-> Scaled(RInt(0), 0), ok |-> r.ok, rt |-> FALSE]
    /\ UNCHANGED <<delay, notDelay>>

\* inverse(real_pos) of a motor position
DelayInverseCall ==
    /\ \E mv \in DelayInputs :
           LET r == DelayInverse(delay, mv)
           IN  dCall' = [op |-> "inverse", din |-> Scaled(RInt(0), 0),
                         motor |-> mv, dout |-> r.value, ok |-> r.ok,
                         rt |-> FALSE]
    /\ UNCHANGED <<delay, notDelay>>

\* inverse(forward(d)): inverse of the result of the forward call just made
DelayInverseOfForward ==
    /\ dCall.op = "forward" /\ dCall.ok
    /\ LET r == DelayInverse(delay, dCall.motor)
       IN  dCall' = [op |-> "inverse", din |-> dCall.din, motor |-> dCall.motor,
                     dout |-> r.value, ok |-> r.ok, rt |-> TRUE]
    /\ UNCHANGED <<delay, notDelay>>

DelayNext ==
    \/ UnitChange
    \/ DelayForwardCall
    \/ DelayInverseCall
    \/ DelayInverseOfForward

----------------------------------------------------------------------------
(* Construction: SyncAxesBase.__init__, DelayBase.__init__ and             *)
(* LookupTablePositioner.__init__                                          *)

Classes == {"SyncAxesBase", "SyncAxesSubclass", "DelayBase", "SimDelayStage"}

\* the positioners of a LookupTablePositioner subclass, self._real +
\* self._pseudo, by attr_name: one real motor and one pseudo axis
TableReal == <<"mtr">>

TablePseudo == <<"pseudo">>

\* names a column can have: the two axes, another attribute of the device
\* that is no positioner ("name"), and a name the device does not have
ColumnNames == {"pseudo", "mtr", "name", "extra"}

\* the real motor's limits: a settable attribute, a read-only property
\* (assigning raises AttributeError, as for EpicsMotor), or no such attribute
LimitModes == {"settable", "readonly", "nolimits"}

SeqSet(seq) == {seq[i] : i \in DOMAIN seq}

RECURSIVE SeqMin(_)
SeqMin(seq) ==
    IF Len(seq) = 1 THEN seq[1] ELSE Min2(Head(seq), SeqMin(Tail(seq)))

RECURSIVE SeqMax(_)
SeqMax(seq) ==
    IF Len(seq) = 1 THEN seq[1] ELSE Max2(Head(seq), SeqMax(Tail(seq)))

\* what the constructors leave behind: the exception raised if any, the
\* assignments to self made in order, and the attributes they set
NoObj ==
    [cls |-> "none", outcome |-> "none", steps |-> <<>>,
     offsets |-> EmptyDict, n_bounces |-> 0, egu |-> "",
     column_names |-> <<>>, table |-> [shape |-> <<>>, rows |-> <<>>],
     mode |-> "settable", missing |-> {}, data |-> EmptyDict,
     limits |-> EmptyDict, logged |-> {}]

\* SyncAxesBase.__init__
SyncAxesBaseInit(cls) ==
    IF cls = "SyncAxesBase"
    THEN [NoObj EXCEPT !.cls = cls, !.outcome = "TypeError"]
    ELSE [NoObj EXCEPT !.cls = cls, !.outcome = "ok",
                       !.steps = <<"super().__init__", "_offsets">>,
                       !.offsets = EmptyDict]

\* a slip: n_bounces is stored before the class is checked
DelayBaseInitStoresFirst(cls, egu, n_bounces) ==
    IF cls = "DelayBase"
    THEN [NoObj EXCEPT !.cls = cls, !.outcome = "TypeError",
                       !.steps = <<"n_bounces">>, !.n_bounces = n_bounces]
    ELSE [NoObj EXCEPT !.cls = cls, !.outcome = "ok",
                       !.steps = <<"n_bounces", "super().__init__">>,
                       !.n_bounces = n_bounces, !.egu = egu]

\* DelayBase.__init__
DelayBaseInit(cls, egu, n_bounces) ==
    IF cls = "DelayBase"
    THEN [NoObj EXCEPT !.cls = cls, !.outcome = "TypeError"]
    ELSE [NoObj EXCEPT !.cls = cls, !.outcome = "ok",
                       !.steps = <<"n_bounces", "super().__init__">>,
                       !.n_bounces = n_bounces, !.egu = egu]

\* a slip: only the real positioners are looked for
MissingReal(column_names) ==
    {TableReal[i] : i \in {j \in DOMAIN TableReal :
                              TableReal[j] \notin SeqSet(column_names)}}

\* the loop over self._real + self._pseudo: the attr_names not in column_names
Missing(column_names) ==
    LET positioners == TableReal \o TablePseudo
    IN  {positioners[i] : i \in {j \in DOMAIN positioners :
                                    positioners[j] \notin SeqSet(column_names)}}

\* the keys of the dict built from enumerate(column_names), in dict order
RECURSIVE DictKeys(_)
DictKeys(column_names) ==
    IF column_names = <<>> THEN <<>>
    ELSE LET k == Head(column_names)
         IN  <<k>> \o SelectSeq(DictKeys(Tail(column_names)), LAMBDA n : n # k)

\* self.table[:, idx] for the last idx that column_name has
TableDataByName(column_names, table) ==
    [name \in SeqSet(column_names) |->
        LET idx == CHOOSE i \in DOMAIN column_names :
                       /\ column_names[i] = name
                       /\ \A j \in DOMAIN column_names :
                              column_names[j] = name => j <= i
        IN  [r \in DOMAIN table.rows |-> table.rows[r][idx]]]

SetLimit(limits, attr, lim) ==
    [n \in DOMAIN limits \cup {attr} |-> IF n = attr THEN lim ELSE limits[n]]

\* the loop `for attr, data in self._table_data_by_name.items()` from key k
RECURSIVE SetLimitsFrom(_, _, _, _, _)
SetLimitsFrom(k, keys, data, mode, acc) ==
    IF k > Len(keys) THEN acc
    ELSE
        LET attr == keys[k]
            column == data[attr]
        IN  IF attr \notin {"pseudo", "mtr", "name"}
            THEN \* getattr(self, attr)
                 [acc EXCEPT !.outcome = "AttributeError"]
            ELSE IF Len(column) = 0
            THEN \* np.min of an empty array
                 [acc EXCEPT !.outcome = "ValueError: zero-size array"]
            ELSE
                LET lim == <<SeqMin(column), SeqMax(column)>>
                IN  IF attr = "pseudo" THEN
                        SetLimitsFrom(k + 1, keys, data, mode,
                            [acc EXCEPT !.limits = SetLimit(@, attr, lim)])
                    ELSE IF attr = "mtr" /\ mode = "settable" THEN
                        SetLimitsFrom(k + 1, keys, data, mode,
                            [acc EXCEPT !.limits = SetLimit(@, attr, lim)])
                    ELSE IF attr = "mtr" /\ mode = "readonly" THEN
                        SetLimitsFrom(k + 1, keys, data, mode,
                            [acc EXCEPT !.logged = @ \cup {attr}])
                    ELSE SetLimitsFrom(k + 1, keys, data, mode, acc)

\* LookupTablePositioner.__init__(table=table, column_names=column_names)
\* for a real motor whose limits behave as mode says
LookupTableInit(column_names, table, mode) ==
    LET self == [NoObj EXCEPT !.cls = "LookupTablePositioner",
                              !.column_names = column_names,
                              !.table = table, !.mode = mode,
                              !.steps = <<"super().__init__", "table",
                                          "column_names">>]
        missing == Missing(column_names)
    IN  IF missing # {} THEN
            [self EXCEPT !.outcome = "ValueError: not present in the table",
                         !.missing = missing]
        ELSE IF table.shape = <<>> THEN
            [self EXCEPT !.outcome = "IndexError"]
        ELSE IF Len(column_names) # table.shape[Len(table.shape)] THEN
            [self EXCEPT !.outcome = "ValueError: number of column names"]
        ELSE IF Len(table.shape) # 2 THEN
            [self EXCEPT !.outcome = "ValueError: table dimensions"]
        ELSE
            LET data == TableDataByName(column_names, table)
            IN  SetLimitsFrom(1, DictKeys(column_names), data, mode,
                    [self EXCEPT !.outcome = "ok", !.data = data,
                                 !.steps = @ \o <<"_table_data_by_name">>])

\* tables have up to one column more than the device has positioners
MaxCols == Len(TableReal) + Len(TablePseudo) + 1

\* column_names arguments: every list of up to MaxCols names
ColumnNameLists == UNION {[1..n -> ColumnNames] : n \in 0..MaxCols}

\* a rows x cols array whose cells are (a * row + col + k) mod (MaxCell + 1)
FilledTable(rows, cols, a, k) ==
    [shape |-> <<rows, cols>>,
     rows |-> [r \in 1..rows |->
                 [c \in 1..cols |-> (a * r + c + k) % (MaxCell + 1)]]]

\* table arguments: arrays of 0, 1 and 3 dimensions, and 2-D arrays of up to
\* MaxRows rows
Tables ==
    {[shape |-> <<>>, rows |-> <<>>]}
    \cup {[shape |-> <<c>>, rows |-> <<>>] : c \in 1..MaxCols}
    \cup {[shape |-> <<1, 1, c>>, rows |-> <<>>] : c \in 1..MaxCols}
    \cup {FilledTable(r, c, a, k) :
             r \in 0..MaxRows, c \in 1..MaxCols,
             a \in 0..MaxCell, k \in 0..MaxCell}

ObjInit == obj = NoObj

\* SyncAxesBase(...) or a subclass of it
NewSyncAxes ==
    /\ obj.cls = "none"
    /\ \E cls \in {"SyncAxesBase", "SyncAxesSubclass"} :
           obj' = SyncAxesBaseInit(cls)
    /\ UNCHANGED notObj

\* DelayBase(egu=egu, n_bounces=n) or SimDelayStage(...)
NewDelay ==
    /\ obj.cls = "none"
    /\ \E cls \in {"DelayBase", "SimDelayStage"}, egu \in DelayEgus,
          n \in 1..MaxBounces :
           obj' = DelayBaseInit(cls, egu, n)
    /\ UNCHANGED notObj

\* a LookupTablePositioner subclass(table=table, column_names=column_names)
NewLookupTable ==
    /\ obj.cls = "none"
    /\ \E column_names \in ColumnNameLists, table \in Tables,
          mode \in LimitModes :
           obj' = LookupTableInit(column_names, table, mode)
    /\ UNCHANGED notObj

ObjNext ==
    \/ NewSyncAxes
    \/ NewDelay
    \/ NewLookupTable

----------------------------------------------------------------------------
(* LookupTablePositioner.forward and inverse *)

\* numpy's linear_search(key, arr, len, 1), which np.interp uses for up to
\* four sample points: the last index before the first sample above the key
RECURSIVE LinearSearch(_, _, _)
LinearSearch(key, arr, i) ==
    IF i <= Len(arr) /\ RLeq(RInt(arr[i]), key)
    THEN LinearSearch(key, arr, i + 1)
    ELSE i - 1

\* np.interp(x, xp, fp) for a scalar x and at least one sample point
NpInterp(x, xp, fp) ==
    LET n == Len(xp)
    IN  IF RLess(RInt(xp[n]), x) THEN RInt(fp[n])
        ELSE IF RLess(x, RInt(xp[1])) THEN RInt(fp[1])
        ELSE
            LET j == LinearSearch(x, xp, 2)
            IN  IF j = n THEN RInt(fp[j])
                ELSE IF RInt(xp[j]) = x THEN RInt(fp[j])
                ELSE
                    LET slope == RDiv(RInt(fp[j + 1] - fp[j]),
                                      RInt(xp[j + 1] - xp[j]))
                    IN  RAdd(RMul(slope, RSub(x, RInt(xp[j]))), RInt(fp[j]))

\* a slip: the sample points and the values exchanged
TableForwardSwapped(data, pseudo_value) ==
    NpInterp(pseudo_value, data[TableReal[1]], data[TablePseudo[1]])

\* LookupTablePositioner.forward: the real value for a pseudo value
TableForward(data, pseudo_value) ==
    NpInterp(pseudo_value, data[TablePseudo[1]], data[TableReal[1]])

\* LookupTablePositioner.inverse: the pseudo value for a real value
TableInverse(data, real_value) ==
    NpInterp(real_value, data[TableReal[1]], data[TablePseudo[1]])

\* the table of the spec's examples: pseudo 0, 10, 20, 30 and real 0, 1, 2, 3
ExampleTable ==
    [shape |-> <<4, 2>>,
     rows |-> <<<<0, 0>>, <<10, 1>>, <<20, 2>>, <<30, 3>>>>]

\* every array of up to MaxRows rows and two columns, and the example
TwoColumnTables ==
    {ExampleTable}
    \cup UNION {{[shape |-> <<n, 2>>, rows |-> rows] :
                    rows \in [1..n -> [1..2 -> 0..MaxCell]]} : n \in 1..MaxRows}

\* the values looked up in a column: its samples, the points half way
\* between neighbours, and a point 5 below and above all samples
InterpInputs(column) ==
    {RInt(column[i]) : i \in DOMAIN column}
    \cup {Rat(column[i] + column[i + 1], 2) : i \in 1..(Len(column) - 1)}
    \cup {RInt(SeqMin(column) - 5), RInt(SeqMax(column) + 5)}

NoTableCall == [op |-> "none", input |-> RInt(0), output |-> RInt(0)]

\* a LookupTablePositioner built on a two-column table
TableInit ==
    /\ \E column_names \in {<<"pseudo", "mtr">>, <<"mtr", "pseudo">>},
          table \in TwoColumnTables :
           LET built == LookupTableInit(column_names, table, "settable")
           IN  built.outcome = "ok" /\ lut = built.data
    /\ tCall = NoTableCall

\* forward(pseudo_pos)
TableForwardCall ==
    /\ \E p \in InterpInputs(lut[TablePseudo[1]]) :
           tCall' = [op |-> "forward", input |-> p,
                     output |-> TableForward(lut, p)]
    /\ UNCHANGED <<lut, notTable>>

\* inverse(real_pos)
TableInverseCall ==
    /\ \E r \in InterpInputs(lut[TableReal[1]]) :
           tCall' = [op |-> "inverse", input |-> r,
                     output |-> TableInverse(lut, r)]
    /\ UNCHANGED <<lut, notTable>>

TableNext ==
    \/ TableForwardCall
    \/ TableInverseCall

----------------------------------------------------------------------------
(* Specifications: one per component; the other components stay idle *)

\* a SyncAxesBase subclass device on which nothing is called
SyncIdle ==
    /\ combiner = "first"
    /\ realPos = [a \in RealAxes |-> 0]
    /\ offsets = EmptyDict
    /\ baseline = EmptyDict
    /\ call = NoCall

\* notepad signals that stay as they are
NpIdle ==
    /\ npSignals = NoSignals
    /\ npCall = NoNpCall

\* a delay stage on which nothing is called
DelayIdle ==
    /\ delay = [egu |-> "s", n_bounces |-> 2, motor_egu |-> "mm"]
    /\ dCall = NoDelayCall

\* no table built
TableIdle ==
    /\ lut = EmptyDict
    /\ tCall = NoTableCall

InitSync == SyncInit /\ NpIdle /\ DelayIdle /\ ObjInit /\ TableIdle

SpecSync == InitSync /\ [][SyncNext]_vars

InitNotepad == NpInit /\ SyncIdle /\ DelayIdle /\ ObjInit /\ TableIdle

SpecNotepad == InitNotepad /\ [][NpNext]_vars

InitDelay == DelayInit /\ SyncIdle /\ NpIdle /\ ObjInit /\ TableIdle

SpecDelay == InitDelay /\ [][DelayNext]_vars

InitConstruct == ObjInit /\ SyncIdle /\ NpIdle /\ DelayIdle /\ TableIdle

SpecConstruct == InitConstruct /\ [][ObjNext]_vars

InitTable == TableInit /\ SyncIdle /\ NpIdle /\ DelayIdle /\ ObjInit

SpecTable == InitTable /\ [][TableNext]_vars

----------------------------------------------------------------------------
(* Properties of SyncAxesBase, checked under SpecSync *)

\* save_offsets has just run (explicitly, or lazily inside forward) and the
\* real axes have not moved since
JustSaved == call.op = "save" \/ (call.op = "forward" /\ call.lazy)

\* C1: right after save_offsets() ran with the real axes at P, the offset map
\* has exactly one entry per real axis and, whatever calc_combined is,
\* calc_combined(P) + offset[axis] = P[axis] for every real axis.
C1_SaveOffsetsReproducesPosition ==
    JustSaved =>
        /\ DOMAIN offsets = RealAxes
        /\ \A axis \in RealAxes :
               CalcCombined(combiner, realPos) + offsets[axis] = realPos[axis]

\* C1 witness: an explicit save_offsets with a custom combiner at a position
\* whose axes differ, so that the offsets are not all zero
C1_Witness ==
    /\ call.op = "save"
    /\ combiner = "sum"
    /\ realPos["left"] = 1 /\ realPos["right"] = 2 /\ realPos["top"] = 0
    /\ offsets["right"] = 0 - 1

C2_WitnessLazy ==
    /\ call.op = "inverse" /\ call.rt /\ call.lazy
    /\ combiner = "min"
    /\ call.pin = 1 /\ offsets["top"] = 2

\* what the offset bookkeeping allows a step to do
OffsetStep ==
    \* the map is written only by save_offsets (called directly or by forward)
    /\ offsets' # offsets => (call'.op = "save" \/ (call'.op = "forward" /\ call'.lazy))
    \* forward calls save_offsets exactly when the map is empty
    /\ call'.op = "forward" => (call'.lazy <=> DOMAIN offsets = {})
    \* and otherwise leaves it alone, wherever the real axes are now
    /\ (call'.op = "forward" /\ DOMAIN offsets # {}) =>
           (offsets' = offsets /\ baseline' = baseline)
    \* inverse does not write the map, and its result depends on its input only
    /\ call'.op = "inverse" =>
           (offsets' = offsets /\ call'.pout = CalcCombined(combiner, call'.real))

\* every forward result is pseudo_pos + the offset of the most recent
\* save_offsets, and keeps the baseline's differences between axes
ForwardUsesBaseline ==
    call.op = "forward" =>
        /\ DOMAIN call.real = RealAxes
        /\ DOMAIN baseline = RealAxes
        /\ \A axis \in RealAxes :
               call.real[axis] =
                   call.pin + (baseline[axis] - CalcCombined(combiner, baseline))
        /\ \A a, b \in RealAxes :
               call.real[a] - call.real[b] = baseline[a] - baseline[b]

\* C10: over any sequence of forward, inverse, save_offsets and real motion,
\* the offset map is written only by save_offsets, forward saves exactly when
\* the map is empty, inverse leaves it alone, and every forward returns
\* pseudo_pos + offset[axis] with the offsets of the most recent save_offsets.
C10_OffsetBookkeeping == []ForwardUsesBaseline /\ [][OffsetStep]_vars

\* C10 witness: a forward that reuses a baseline taken before the axes moved
C10_Witness ==
    /\ call.op = "forward" /\ ~call.lazy
    /\ realPos # baseline
    /\ baseline["left"] = 0 /\ baseline["right"] = 2 /\ baseline["top"] = 1
    /\ combiner = "max"
    /\ call.pin = 1 /\ call.real["left"] = 0 - 1

----------------------------------------------------------------------------
(* Properties of the notepad push, checked under SpecNotepad *)

\* the last call got as far as _update_notepad_ioc
PushRan ==
    \/ npCall.op = "move" /\ IsStatus(npCall.super)
    \/ npCall.op = "update"

\* C3: a failure raised while pushing to the notepad signals (by connected,
\* write_access, get or put, on any pseudo axis) never leaves the call: move
\* returns the status of the underlying move and _update_position returns
\* the recomputed position.
C3_PushFailureNotPropagated ==
    /\ (npCall.op = "move" /\ IsStatus(npCall.super)) =>
           (npCall.raised = "none" /\ npCall.returned = npCall.super)
    /\ npCall.op = "update" =>
           (npCall.raised = "none" /\ npCall.returned = "position")

\* C3 witness: a move whose push fails on both axes (connected raises on the
\* first, put raises on the second) and that still returns its status
C3_Witness ==
    /\ npCall.op = "move" /\ npCall.wait /\ npCall.returned = "done"
    /\ npSignals["x"].attached /\ npSignals["x"].connected = "raise"
    /\ npSignals["y"].putRaises
    /\ npSignals["y"].value # npCall.position["y"]
    /\ Len(npCall.events) = 4
    /\ npCall.events[2].ev = "log" /\ npCall.events[4].ev = "log"

PutsFor(axis) ==
    {i \in DOMAIN npCall.events :
        npCall.events[i].ev = "put" /\ npCall.events[i].axis = axis}

\* the signal is attached, connected, writable and holds another value
ShouldWrite(axis) ==
    /\ npSignals[axis].attached
    /\ npSignals[axis].connected = "true"
    /\ npSignals[axis].write_access = "true"
    /\ ~npSignals[axis].getRaises
    /\ npSignals[axis].value # npCall.position[axis]

\* C4: during a push, put is called for a pseudo axis exactly when the axis
\* has the signal, the signal is connected and writable and its last value
\* differs from the new one; then once, with the new value.  An equal value
\* or a missing signal gives no write and no error.
C4_WriteIffChanged ==
    PushRan =>
        \A axis \in PseudoAxes :
            /\ PutsFor(axis) # {} <=> ShouldWrite(axis)
            /\ Cardinality(PutsFor(axis)) <= 1
            /\ \A i \in PutsFor(axis) :
                   npCall.events[i].value = npCall.position[axis]
            /\ (~npSignals[axis].attached \/
                (npSignals[axis].connected = "true"
                 /\ npSignals[axis].write_access = "true"
                 /\ ~npSignals[axis].getRaises
                 /\ npSignals[axis].value = npCall.position[axis])) =>
                   \A i \in DOMAIN npCall.events : npCall.events[i].axis # axis

\* C4 witness: one push that writes the first axis (value changed) and skips
\* the second (value equal)
C4_Witness ==
    /\ npCall.op = "update"
    /\ ShouldWrite("x") /\ PutsFor("x") = {2}
    /\ npSignals["y"].attached /\ npSignals["y"].connected = "true"
    /\ npSignals["y"].write_access = "true" /\ ~npSignals["y"].getRaises
    /\ npSignals["y"].value = npCall.position["y"]
    /\ Len(npCall.events) = 2


\* the places in the last call's record where something was done to a
\* notepad signal (a put, or the debug log of a failed push)
NotepadEvents ==
    {i \in DOMAIN npCall.events : npCall.events[i].ev \in {"put", "log"}}

NotepadPuts ==
    {i \in DOMAIN npCall.events : npCall.events[i].ev = "put"}

\* C11: in move, every write to notepad_setpoint comes after super().move
\* has returned its status (with wait=True a status that is done) and writes
\* the commanded position; when super().move raises (invalid position,
\* timeout, motion fault) the error leaves move and nothing is written.
\* move touches only notepad_setpoint; notepad_readback is touched only by
\* _update_position, after super()._update_position() has recomputed the
\* position, and with that position.
C11_MoveThenPush ==
    /\ npCall.op = "move" =>
           /\ npCall.events[1].ev = "super.move"
           /\ \A i \in NotepadEvents :
                  /\ i > 1
                  /\ IsStatus(npCall.super)
                  /\ npCall.wait => npCall.super = "done"
                  /\ npCall.events[i].attr = "notepad_setpoint"
           /\ \A i \in NotepadPuts :
                  npCall.events[i].value = npCall.position[npCall.events[i].axis]
           /\ ~IsStatus(npCall.super) =>
                  /\ npCall.raised = npCall.super
                  /\ npCall.returned = "none"
                  /\ NotepadEvents = {}
    /\ npCall.op = "update" =>
           /\ npCall.events[1].ev = "super._update_position"
           /\ \A i \in NotepadEvents :
                  /\ i > 1
                  /\ npCall.events[i].attr = "notepad_readback"
           /\ \A i \in NotepadPuts :
                  npCall.events[i].value = npCall.position[npCall.events[i].axis]

\* C11 witness: a waiting move that times out although both setpoint
\* signals were ready to be written; nothing is written
C11_Witness ==
    /\ npCall.op = "move" /\ npCall.wait
    /\ npCall.raised = "TimeoutError"
    /\ ShouldWrite("x") /\ ShouldWrite("y")
    /\ ~npSignals["x"].putRaises /\ ~npSignals["y"].putRaises
    /\ npCall.events = <<Event("super.move", "", "", 0)>>

\* C11, the other cases: a completed move writes both setpoints after
\* super().move, and _update_position writes the readback
C11_WitnessPushed ==
    /\ npCall.op = "move" /\ npCall.wait /\ npCall.returned = "done"
    /\ Len(npCall.events) = 3
    /\ npCall.events[2] = Event("put", "notepad_setpoint", "x", npCall.position["x"])
    /\ npCall.events[3] = Event("put", "notepad_setpoint", "y", npCall.position["y"])

C11_WitnessReadback ==
    /\ npCall.op = "update"
    /\ Len(npCall.events) = 2
    /\ npCall.events[2] = Event("put", "notepad_readback", "x", npCall.position["x"])

----------------------------------------------------------------------------
(* Properties of DelayBase, checked under SpecDelay *)

ConsistentUnits ==
    UnitDim(delay.egu) = "time" /\ UnitDim(delay.motor_egu) = "length"

\* C9: for every positive delay d and positive bounce count, with a time
\* unit on the delay axis and a length unit on the motor, both unchanged
\* between the calls, inverse(forward(d)) = d.
C9_DelayRoundTrip ==
    (dCall.op = "inverse" /\ dCall.rt /\ ConsistentUnits) =>
        (dCall.ok /\ dCall.dout = dCall.din)

\* C9 witness: the spec's numeric case, 1e-9 s with two bounces on a motor in
\* mm, goes to 149.896229 mm and comes back
C9_Witness ==
    /\ dCall.op = "inverse" /\ dCall.rt /\ dCall.ok
    /\ delay = [egu |-> "s", n_bounces |-> 2, motor_egu |-> "mm"]
    /\ dCall.din = [m |-> <<1, 1>>, e |-> 0 - 9]
    /\ dCall.motor = [m |-> <<149896229, 1>>, e |-> 0 - 6]
    /\ dCall.dout = dCall.din

----------------------------------------------------------------------------
(* Properties of construction, checked under SpecConstruct *)

ConfiguredAxes == SeqSet(TableReal) \cup SeqSet(TablePseudo)

IsTable == obj.cls = "LookupTablePositioner"

\* C5: when a configured real or pseudo axis name is absent from
\* column_names, construction fails with the ValueError that names exactly
\* the absent axis names, whatever the table's shape and however many column
\* names there are.
C5_MissingAxesRejected ==
    (IsTable /\ ~(ConfiguredAxes \subseteq SeqSet(obj.column_names))) =>
        /\ obj.outcome = "ValueError: not present in the table"
        /\ obj.missing = ConfiguredAxes \ SeqSet(obj.column_names)

\* C5 witness: a 3-D table with one column name too many for it, of which
\* only the real motor's is missing
C5_Witness ==
    /\ IsTable
    /\ obj.table.shape = <<1, 1, 1>>
    /\ obj.column_names = <<"pseudo", "extra", "pseudo">>
    /\ obj.outcome = "ValueError: not present in the table"
    /\ obj.missing = {"mtr"}

\* the table is 2-D with at least one row (so that its columns have a min
\* and a max), has as many columns as column names, and every configured
\* axis is among the column names
ValidTableArgs ==
    /\ IsTable
    /\ Len(obj.table.shape) = 2
    /\ obj.table.shape[1] > 0
    /\ Len(obj.column_names) = obj.table.shape[2]
    /\ ConfiguredAxes \subseteq SeqSet(obj.column_names)

LimitsOfColumn(axis) == <<SeqMin(obj.data[axis]), SeqMax(obj.data[axis])>>

\* C6: for every 2-D table with rows and as many columns as column names,
\* whose column names include every configured axis (and may include others),
\* construction completes, the pseudo axis's limits are (min, max) of its
\* column, and so are the real axis's unless setting them failed, which is
\* logged and not fatal.
C6_ValidTableConstructs ==
    ValidTableArgs =>
        /\ obj.outcome = "ok"
        /\ "pseudo" \in DOMAIN obj.limits
        /\ obj.limits["pseudo"] = LimitsOfColumn("pseudo")
        /\ \/ /\ "mtr" \in DOMAIN obj.limits
              /\ obj.limits["mtr"] = LimitsOfColumn("mtr")
           \/ obj.mode # "settable"

\* C8: SyncAxesBase(...) and DelayBase(...) themselves raise TypeError before
\* anything is assigned to the instance; a subclass constructs, a
\* SyncAxesBase subclass with an empty offset map and a DelayBase subclass
\* with its n_bounces.
C8_AbstractBasesRejected ==
    /\ obj.cls \in {"SyncAxesBase", "DelayBase"} =>
           /\ obj.outcome = "TypeError"
           /\ obj.steps = <<>>
           /\ obj.n_bounces = 0
    /\ obj.cls = "SyncAxesSubclass" =>
           /\ obj.outcome = "ok"
           /\ "_offsets" \in SeqSet(obj.steps)
           /\ obj.offsets = EmptyDict
    /\ obj.cls = "SimDelayStage" =>
           /\ obj.outcome = "ok"
           /\ "n_bounces" \in SeqSet(obj.steps)
           /\ obj.n_bounces \in 1..MaxBounces

\* C8 witness: DelayBase itself was instantiated
C8_Witness ==
    /\ obj.cls = "DelayBase"
    /\ obj.outcome = "TypeError"
    /\ obj.steps = <<>>

\* C8, the other half: a subclass with its motor constructs
C8_WitnessSubclass ==
    /\ obj.cls = "SimDelayStage"
    /\ obj.outcome = "ok"
    /\ obj.n_bounces = 2
    /\ obj.egu = "s"

----------------------------------------------------------------------------
(* Properties of the lookup, checked under SpecTable *)

\* monotonically increasing: no sample is below the one before it
Increasing(column) ==
    \A i \in 1..(Len(column) - 1) : column[i] <= column[i + 1]

\* r is the piecewise-linear interpolation of x over the points (xs, ys):
\* the first value below the samples, the last value from the last sample
\* on, and on the line through the two neighbouring points in between
Interpolates(x, xs, ys, r) ==
    LET n == Len(xs)
    IN  /\ RLess(x, RInt(xs[1])) => r = RInt(ys[1])
        /\ RLeq(RInt(xs[n]), x) => r = RInt(ys[n])
        /\ \A i \in 1..(n - 1) :
               (RLeq(RInt(xs[i]), x) /\ RLess(x, RInt(xs[i + 1]))) =>
                   RMul(RSub(r, RInt(ys[i])), RInt(xs[i + 1] - xs[i]))
                       = RMul(RSub(x, RInt(xs[i])), RInt(ys[i + 1] - ys[i]))

ExampleData ==
    [pseudo |-> <<0, 10, 20, 30>>, mtr |-> <<0, 1, 2, 3>>]

\* C7: on a table whose pseudo and real columns increase, forward(p) is the
\* piecewise-linear interpolation of p from the pseudo column to the real
\* column and inverse(r) that of r from the real column to the pseudo column,
\* clamped at both ends; on the example table forward(15) = 1.5,
\* inverse(2.5) = 25, forward(-5) = 0 and forward(35) = 3.
C7_TableInterpolates ==
    (Increasing(lut["pseudo"]) /\ Increasing(lut["mtr"])) =>
        /\ tCall.op = "forward" =>
               Interpolates(tCall.input, lut["pseudo"], lut["mtr"], tCall.output)
        /\ tCall.op = "inverse" =>
               Interpolates(tCall.input, lut["mtr"], lut["pseudo"], tCall.output)
        /\ (lut = ExampleData /\ tCall.op = "forward") =>
               /\ tCall.input = RInt(15) => tCall.output = <<3, 2>>
               /\ tCall.input = RInt(0 - 5) => tCall.output = RInt(0)
               /\ tCall.input = RInt(35) => tCall.output = RInt(3)
        /\ (lut = ExampleData /\ tCall.op = "inverse") =>
               (tCall.input = <<5, 2>> => tCall.output = RInt(25))

\* C7 witness: forward(15) = 1.5 on the example table
C7_Witness ==
    /\ lut = ExampleData
    /\ tCall = [op |-> "forward", input |-> <<15, 1>>, output |-> <<3, 2>>]

\* C7, the other examples: inverse(2.5) = 25 and the clamp below
C7_WitnessInverse ==
    /\ lut = ExampleData
    /\ tCall = [op |-> "inverse", input |-> <<5, 2>>, output |-> <<25, 1>>]

C7_WitnessClamp ==
    /\ lut = ExampleData
    /\ tCall = [op |-> "forward", input |-> <<0 - 5, 1>>, output |-> <<0, 1>>]

====
